---- MODULE Spec2Model ----
(***************************************************************************)
(* The Session Store (AuthProvider) of the repository, in its two          *)
(* variants:                                                               *)
(*   "A"  src/hooks/use-auth.tsx          (with connectionError)           *)
(*   "B"  src/lib/supabase.ts:139-354     (without connectionError)        *)
(*                                                                         *)
(* The store variables hold the value last passed to the React state       *)
(* setter of the same name.  Every action is one run-to-completion segment *)
(* of the JavaScript event loop: a handler from its entry (or from the     *)
(* resumption of an await) up to its next await or its return.             *)
(*                                                                         *)
(* With it, its two consumers: the Access Gate (ProtectedRoute, in         *)
(* src/components/protected-route.tsx and, revised, in                     *)
(* src/unnamed/part_000) and the Resource Store (useProjects,              *)
(* src/hooks/use-projects.tsx).  Spec is the Session Store alone, GateSpec *)
(* the store under the gate, ProjSpec the store under useProjects, and     *)
(* LinksSpec the social_links clean-up of createProject on its inputs.     *)
(***************************************************************************)
EXTENDS Naturals, FiniteSets, Sequences

VARIABLES
    variant,        \* which AuthProvider is mounted: "A" or "B"
    urlCfg, keyCfg, \* VITE_SUPABASE_URL, VITE_SUPABASE_ANON_KEY
    user, profile, session, loading, connectionError,   \* useState values
    effectRan,      \* the useEffect body has run
    mounted,        \* `let mounted` of the effect
    closureCE,      \* connectionError as captured by the effect's closures
    subscribed,     \* the onAuthStateChange subscription is live
    bootPc,         \* position of initializeAuth
    bootSession,    \* `let session` of initializeAuth
    bootOutcome,    \* how Promise.race settled: "none","ok","error","reject","timeout"
    bootOverlap,    \* an auth event was handled while initializeAuth awaited fetchProfile
    probe,          \* the getSession() promise
    timer,          \* the setTimeout behind timeoutPromise
    hardTimeout,    \* variant B's hardTimeout timer
    fetches,        \* fetchProfile calls in flight
    nFetch,         \* fetchProfile calls issued so far
    failed,         \* fetchProfile calls whose query failed (error or exception)
    getSessionCalls,\* supabase.auth.getSession() calls issued so far
    nEvents,        \* auth-change events delivered so far
    pendingOp,      \* the credential operation awaiting the remote service
    remoteAuthCalls,\* calls issued to supabase.auth.signIn*/signUp/signOut/reset*
    opResult,       \* what the last credential operation returned
    lateSetters,    \* continuations that invoked a state setter after cleanup
    unhandled,      \* a rejection escaped a handler
    \* ProtectedRoute
    gateVariant,    \* "original" (protected-route.tsx) or "revised" (part_000)
    showAuth, authDismissed,    \* useState values of ProtectedRoute
    showLoading,    \* useState value of the original ProtectedRoute
    \* useProjects
    projMounted,    \* the hook's effect has run once
    projects,       \* useState<Project[]>: the local list
    projLoading,    \* useState(true): the hook's loading
    remote,         \* the rows of the remote table `projects`
    inserted,       \* rows ever inserted into `projects`
    projOps,        \* fetch/create/update/delete calls awaiting the remote service
    nProjOps,       \* calls a component has made of refetch, createProject, updateProject, deleteProject
    projResult,     \* how the last call of a function of useProjects to complete did
    projFailed,     \* one of these calls has returned an error or had its query fail
    \* createProject's clean-up of social_links
    linksIn,        \* projectData.social_links
    linksOut        \* insertData.social_links

store == <<user, profile, session, loading, connectionError>>

vars == <<variant, urlCfg, keyCfg, user, profile, session, loading,
          connectionError, effectRan, mounted, closureCE, subscribed, bootPc,
          bootSession, bootOutcome, bootOverlap, probe, timer, hardTimeout,
          fetches, nFetch, failed, getSessionCalls, nEvents, pendingOp,
          remoteAuthCalls, opResult, lateSetters, unhandled>>

gateVars == <<gateVariant, showAuth, authDismissed, showLoading>>

projVars == <<projMounted, projects, projLoading, remote, inserted, projOps,
              nProjOps, projResult, projFailed>>

linksVars == <<linksIn, linksOut>>

allVars == <<vars, gateVars, projVars, linksVars>>

-----------------------------------------------------------------------------
(* Bounds *)

MaxEvents == 1    \* auth-change events delivered in one behaviour
MaxRemoteCalls == 1   \* calls issued to the remote auth service in one behaviour
MaxProjOps == 1   \* calls a component makes of the functions of useProjects in one behaviour
MaxProjects == 1  \* rows inserted into `projects` in one behaviour
MaxLen == 2       \* characters in a value of social_links

-----------------------------------------------------------------------------
(* Values *)

NoUser == "null"
Users == {"u1", "u2"}
NoProfile == "null"

NullSession == [present |-> FALSE, user |-> NoUser]
Sessions == {NullSession} \cup {[present |-> TRUE, user |-> u] : u \in Users}

CfgValues == {"missing", "placeholder", "valid"}

\* getSession() settles as {data:{session}, error:null}, as
\* {data:{session:null}, error} or by rejecting.
ProbeResults ==
    {[kind |-> "ok", session |-> s] : s \in Sessions}
        \cup {[kind |-> "error", session |-> NullSession],
              [kind |-> "reject", session |-> NullSession]}

ProfileOutcomes == {"row", "norow", "error", "throw"}
RemoteOutcomes == {"ok", "error", "throw"}
CredentialOps == {"signIn", "signUp", "signInWithGoogle", "resetPassword"}

NoResult == [op |-> "none", error |-> "null", remote |-> FALSE]

\* A faulty UserOf: the session's user is dropped.
UserOfDropped(s) == NoUser

\* session?.user ?? null
UserOf(s) == IF s.present THEN s.user ELSE NoUser

\* A faulty Unconfigured: the placeholder key is not recognised.
UnconfiguredNoKeySentinel(url, key) ==
    url = "missing" \/ key = "missing" \/ url = "placeholder"

\* !supabaseUrl || !supabaseAnonKey || url === placeholder || key === placeholder
Unconfigured(url, key) ==
    url = "missing" \/ key = "missing" \/ url = "placeholder" \/ key = "placeholder"

\* A faulty FetchProfile: a failed query yields the row all the same.
FetchProfileKeepsRow(userId, outcome) ==
    IF outcome = "norow" THEN NoProfile ELSE userId

\* fetchProfile: the row on success, null on PGRST116 (data is null), on any
\* other error and on an exception; it never throws.
FetchProfile(userId, outcome) ==
    CASE outcome = "row" -> userId
      [] outcome = "norow" -> NoProfile
      [] outcome = "error" -> NoProfile
      [] outcome = "throw" -> NoProfile

\* fetchProfile wraps its query in try/catch and returns null from the catch:
\* no outcome of the query leaves it as an exception.
FetchProfileThrows(outcome) == FALSE

\* Labels of the continuations that invoked a setter with mounted = false.
Late(labels) == IF mounted THEN lateSetters ELSE lateSetters \cup labels

\* No call of a function of useProjects has completed yet.
NoProjResult == [op |-> "none", n |-> 0, error |-> "null"]

\* projectData without social_links, insertData.social_links not yet computed.
NoLinksIn == [given |-> FALSE, map |-> [k \in {} |-> <<>>]]
NoLinksOut == [done |-> FALSE, isNull |-> TRUE, map |-> [k \in {} |-> <<>>]]

-----------------------------------------------------------------------------
\* ProtectedRoute as first rendered (useState initial values), revised variant.
GateInit ==
    /\ gateVariant = "revised"
    /\ showAuth = FALSE
    /\ authDismissed = FALSE
    /\ showLoading = TRUE

\* A row of `projects` as inserted for user u, not yet edited by an update.
Row(i, u) == [id |-> i, user_id |-> u, edited |-> FALSE]

\* useProjects as first rendered; the remote table holds a row inserted for
\* u1 in an earlier visit.
ProjInit ==
    /\ projMounted = FALSE
    /\ projects = <<>>
    /\ projLoading = TRUE
    /\ remote = {Row(0, "u1")}
    /\ inserted = 0
    /\ projOps = {}
    /\ nProjOps = 0
    /\ projResult = NoProjResult
    /\ projFailed = FALSE

\* No createProject call under way.
LinksInit ==
    /\ linksIn = NoLinksIn
    /\ linksOut = NoLinksOut

\* AuthProvider as first rendered.
StoreInit ==
    /\ variant \in {"A", "B"}
    /\ urlCfg \in CfgValues
    /\ keyCfg \in CfgValues
    \* AuthProvider B never reads the configuration: one value stands for all
    /\ (variant = "B" => urlCfg = "valid" /\ keyCfg = "valid")
    /\ user = NoUser
    /\ profile = NoProfile
    /\ session = NullSession
    /\ loading = TRUE
    /\ connectionError = FALSE
    /\ effectRan = FALSE
    /\ mounted = FALSE
    /\ closureCE = FALSE
    /\ subscribed = FALSE
    /\ bootPc = "start"
    /\ bootSession = NullSession
    /\ bootOutcome = "none"
    /\ bootOverlap = FALSE
    /\ probe = "idle"
    /\ timer = "idle"
    /\ hardTimeout = "idle"
    /\ fetches = {}
    /\ nFetch = 0
    /\ failed = {}
    /\ getSessionCalls = 0
    /\ nEvents = 0
    /\ pendingOp = "none"
    /\ remoteAuthCalls = 0
    /\ opResult = NoResult
    /\ lateSetters = {}
    /\ unhandled = FALSE

Init == StoreInit /\ GateInit /\ ProjInit /\ LinksInit

-----------------------------------------------------------------------------
(* The effect: initializeAuth up to its first await, hardTimeout, subscribe *)

\* Variant A, lines 56-182 up to the first await.  The closures created here
\* (initializeAuth, the auth-change callback) see the connectionError of the
\* render that created them, for good: the dependency list is [].
MountEffectA(subThrows) ==
    /\ variant = "A"
    /\ IF Unconfigured(urlCfg, keyCfg)
       THEN /\ connectionError' = TRUE
            /\ loading' = FALSE
            /\ bootPc' = "done"
            /\ bootOutcome' = "unconfigured"
            /\ UNCHANGED <<probe, timer, getSessionCalls>>
       ELSE /\ getSessionCalls' = getSessionCalls + 1
            /\ probe' = "pending"
            /\ timer' = "armed"
            /\ bootPc' = "racing"
            /\ connectionError' = (connectionError \/ subThrows)
            /\ UNCHANGED <<loading, bootOutcome>>
    /\ subscribed' = ~subThrows
    /\ UNCHANGED hardTimeout

\* Variant B, src/lib/supabase.ts lines 165-268 up to the first await.
MountEffectB(subThrows) ==
    /\ variant = "B"
    /\ getSessionCalls' = getSessionCalls + 1
    /\ probe' = "pending"
    /\ timer' = "armed"
    /\ hardTimeout' = "armed"
    /\ bootPc' = "racing"
    /\ subscribed' = ~subThrows
    /\ UNCHANGED <<connectionError, loading, bootOutcome>>

MountEffect ==
    /\ ~effectRan
    /\ effectRan' = TRUE
    /\ mounted' = TRUE
    /\ closureCE' = connectionError
    /\ \E subThrows \in BOOLEAN :
          IF variant = "A" THEN MountEffectA(subThrows) ELSE MountEffectB(subThrows)
    /\ UNCHANGED <<variant, urlCfg, keyCfg, user, profile, session, bootSession,
                   bootOverlap, fetches, nFetch, nEvents, pendingOp,
                   remoteAuthCalls, opResult, lateSetters, unhandled, failed>>

\* The cleanup returned by the effect.
Cleanup ==
    /\ effectRan
    /\ mounted
    /\ mounted' = FALSE
    /\ subscribed' = FALSE
    /\ hardTimeout' = IF hardTimeout = "armed" THEN "cleared" ELSE hardTimeout
    /\ UNCHANGED <<variant, urlCfg, keyCfg, user, profile, session, loading,
                   connectionError, effectRan, closureCE, bootPc, bootSession,
                   bootOutcome, bootOverlap, probe, timer, fetches, nFetch,
                   getSessionCalls, nEvents, pendingOp, remoteAuthCalls,
                   opResult, lateSetters, unhandled, failed>>

-----------------------------------------------------------------------------
(* initializeAuth after `await Promise.race([sessionPromise, timeoutPromise])` *)

\* The catch of the inner try (A: lines 92-99, B: lines 184-191): reached when
\* the timer rejects first and when getSession() itself rejects.
RaceRejected(label) ==
    /\ IF variant = "A"
       THEN /\ connectionError' = TRUE
            /\ lateSetters' = Late({label})
       ELSE UNCHANGED <<connectionError, lateSetters>>
    /\ loading' = IF mounted THEN FALSE ELSE loading
    /\ bootPc' = "done"
    /\ UNCHANGED <<user, profile, session, fetches, nFetch>>

\* A faulty BootConnectionError: the error of the result is not looked at.
BootConnectionErrorNever(result) == FALSE

\* if (error) setConnectionError(true) else setConnectionError(false)
BootConnectionError(result) == result.kind = "error"

\* Variant A, lines 90-127.
RaceResolvedA(result) ==
    /\ connectionError' = BootConnectionError(result)
    /\ lateSetters' = Late({"probe"})
    /\ IF mounted
       THEN /\ session' = result.session
            /\ user' = UserOf(result.session)
            /\ IF UserOf(result.session) # NoUser /\ ~closureCE
               THEN /\ fetches' = fetches \cup
                          {[id |-> nFetch + 1, origin |-> "boot",
                            uid |-> UserOf(result.session)]}
                    /\ nFetch' = nFetch + 1
                    /\ bootPc' = "profile"
                    /\ UNCHANGED loading
               ELSE /\ loading' = FALSE
                    /\ bootPc' = "done"
                    /\ UNCHANGED <<fetches, nFetch>>
       ELSE /\ bootPc' = "done"
            /\ UNCHANGED <<session, user, loading, fetches, nFetch>>
    /\ UNCHANGED profile

\* Variant B, lines 183-209: the profile fetch is not awaited.
RaceResolvedB(result) ==
    /\ IF mounted
       THEN /\ session' = result.session
            /\ user' = UserOf(result.session)
            /\ IF UserOf(result.session) # NoUser
               THEN /\ fetches' = fetches \cup
                          {[id |-> nFetch + 1, origin |-> "boot",
                            uid |-> UserOf(result.session)]}
                    /\ nFetch' = nFetch + 1
               ELSE UNCHANGED <<fetches, nFetch>>
            /\ loading' = FALSE
       ELSE UNCHANGED <<session, user, loading, fetches, nFetch>>
    /\ bootPc' = "done"
    /\ UNCHANGED <<profile, connectionError, lateSetters>>

\* getSession() settles while the race is open.
GetSessionResolve(result) ==
    /\ probe = "pending"
    /\ bootPc = "racing"
    /\ probe' = "settled"
    /\ bootOutcome' = result.kind
    /\ bootSession' = result.session
    /\ IF result.kind = "reject"
       THEN RaceRejected("probe")
       ELSE IF variant = "A" THEN RaceResolvedA(result) ELSE RaceResolvedB(result)
    /\ UNCHANGED <<variant, urlCfg, keyCfg, effectRan, mounted, closureCE,
                   subscribed, bootOverlap, timer, hardTimeout, getSessionCalls,
                   nEvents, pendingOp, remoteAuthCalls, opResult, unhandled, failed>>

\* The promises Promise.race is called on (A: lines 86-89, B: lines 179-182).
\* It attaches its handlers to each of them, so the rejection of the one that
\* settles second is a handled rejection.
Raced == {"sessionPromise", "timeoutPromise"}

\* A faulty TimeoutFire: the catch of the race runs whenever the timer fires.
TimeoutFireCatchesAlways ==
    /\ timer = "armed"
    /\ timer' = "fired"
    /\ probe' = IF bootPc = "racing" THEN "lost" ELSE probe
    /\ bootOutcome' = IF bootPc = "racing" THEN "timeout" ELSE bootOutcome
    /\ RaceRejected("timeout")
    /\ unhandled' = (unhandled \/ "timeoutPromise" \notin Raced)
    /\ UNCHANGED <<variant, urlCfg, keyCfg, effectRan, mounted, closureCE,
                   subscribed, bootSession, bootOverlap, hardTimeout,
                   getSessionCalls, nEvents, pendingOp, remoteAuthCalls,
                   opResult, failed>>

\* The setTimeout of timeoutPromise fires (A: 10000 ms, B: 3000 ms) and
\* rejects timeoutPromise.  The timer is never cleared; when the race is
\* already settled no continuation of initializeAuth is waiting on it.
TimeoutFire ==
    /\ timer = "armed"
    /\ timer' = "fired"
    /\ IF bootPc = "racing"
       THEN /\ probe' = "lost"
            /\ bootOutcome' = "timeout"
            /\ RaceRejected("timeout")
       ELSE UNCHANGED <<probe, bootOutcome, bootPc, user, profile, session,
                        loading, connectionError, fetches, nFetch, lateSetters>>
    /\ unhandled' = (unhandled \/ "timeoutPromise" \notin Raced)
    /\ UNCHANGED <<variant, urlCfg, keyCfg, effectRan, mounted, closureCE,
                   subscribed, bootSession, bootOverlap, hardTimeout,
                   getSessionCalls, nEvents, pendingOp, remoteAuthCalls,
                   opResult, failed>>

\* A faulty GetSessionLate: the late result is stored.
GetSessionLateStored(result) ==
    /\ probe = "lost"
    /\ probe' = "late"
    /\ session' = result.session
    /\ user' = UserOf(result.session)
    /\ connectionError' = BootConnectionError(result)
    /\ UNCHANGED <<variant, urlCfg, keyCfg, profile, loading, effectRan, mounted,
                   closureCE, subscribed, bootPc, bootSession, bootOutcome,
                   bootOverlap, timer, hardTimeout, fetches, nFetch,
                   getSessionCalls, nEvents, pendingOp, remoteAuthCalls,
                   opResult, lateSetters, unhandled, failed>>

\* getSession() settles after the timer won the race: Promise.race is already
\* settled, so no continuation of initializeAuth runs.
GetSessionLate(result) ==
    /\ probe = "lost"
    /\ probe' = "late"
    /\ UNCHANGED <<variant, urlCfg, keyCfg, user, profile, session, loading,
                   connectionError, effectRan, mounted, closureCE, subscribed,
                   bootPc, bootSession, bootOutcome, bootOverlap, timer,
                   hardTimeout, fetches, nFetch, getSessionCalls, nEvents,
                   pendingOp, remoteAuthCalls, opResult, lateSetters, unhandled, failed>>

\* Variant B, lines 222-226.
HardTimeoutFire ==
    /\ hardTimeout = "armed"
    /\ hardTimeout' = "fired"
    /\ loading' = IF mounted THEN FALSE ELSE loading
    /\ UNCHANGED <<variant, urlCfg, keyCfg, user, profile, session,
                   connectionError, effectRan, mounted, closureCE, subscribed,
                   bootPc, bootSession, bootOutcome, bootOverlap, probe, timer,
                   fetches, nFetch, getSessionCalls, nEvents, pendingOp,
                   remoteAuthCalls, opResult, lateSetters, unhandled, failed>>

-----------------------------------------------------------------------------
(* The auth-change subscription and the profile fetches *)

\* A faulty EventFetchesProfile: the callback takes the fetching branch
\* whatever the event carries.
EventFetchesProfileAlways(s) == TRUE

\* `session?.user && !connectionError` of the callback: connectionError is the
\* value the effect's closure captured (A: line 151); B has no such test
\* (line 238).
EventFetchesProfile(s) ==
    /\ UserOf(s) # NoUser
    /\ (variant = "A" => ~closureCE)

\* A faulty AuthStateChange: the callback shows the loading state again while
\* the profile of the event's user is fetched.
AuthStateChangeShowsLoading(s) ==
    /\ subscribed
    /\ mounted
    /\ nEvents < MaxEvents
    /\ nEvents' = nEvents + 1
    /\ session' = s
    /\ user' = UserOf(s)
    /\ bootOverlap' = (bootOverlap \/ bootPc = "profile")
    /\ IF EventFetchesProfile(s)
       THEN /\ fetches' = fetches \cup
                  {[id |-> nFetch + 1, origin |-> "event", uid |-> UserOf(s)]}
            /\ nFetch' = nFetch + 1
            /\ UNCHANGED profile
            /\ loading' = TRUE
       ELSE /\ profile' = NoProfile
            /\ loading' = FALSE
            /\ UNCHANGED <<fetches, nFetch>>
    /\ UNCHANGED <<variant, urlCfg, keyCfg, connectionError, effectRan, mounted,
                   closureCE, subscribed, bootPc, bootSession, bootOutcome,
                   probe, timer, hardTimeout, getSessionCalls, pendingOp,
                   remoteAuthCalls, opResult, lateSetters, unhandled, failed>>

\* A faulty AuthStateChange: an event that carries a user clears
\* connectionError.
AuthStateChangeClearsError(s) ==
    /\ subscribed
    /\ mounted
    /\ nEvents < MaxEvents
    /\ nEvents' = nEvents + 1
    /\ session' = s
    /\ user' = UserOf(s)
    /\ connectionError' = IF UserOf(s) # NoUser THEN FALSE ELSE connectionError
    /\ bootOverlap' = (bootOverlap \/ bootPc = "profile")
    /\ IF EventFetchesProfile(s)
       THEN /\ fetches' = fetches \cup
                  {[id |-> nFetch + 1, origin |-> "event", uid |-> UserOf(s)]}
            /\ nFetch' = nFetch + 1
            /\ UNCHANGED profile
            /\ loading' = IF variant = "A" THEN loading ELSE FALSE
       ELSE /\ profile' = NoProfile
            /\ loading' = FALSE
            /\ UNCHANGED <<fetches, nFetch>>
    /\ UNCHANGED <<variant, urlCfg, keyCfg, effectRan, mounted,
                   closureCE, subscribed, bootPc, bootSession, bootOutcome,
                   probe, timer, hardTimeout, getSessionCalls, pendingOp,
                   remoteAuthCalls, opResult, lateSetters, unhandled, failed>>

\* The onAuthStateChange callback up to its await (A: lines 143-168) or to its
\* end (B: lines 232-253).  A live subscription implies mounted, so the
\* `if (!mounted) return` is not taken.
AuthStateChange(s) ==
    /\ subscribed
    /\ mounted
    /\ nEvents < MaxEvents
    /\ nEvents' = nEvents + 1
    /\ session' = s
    /\ user' = UserOf(s)
    /\ bootOverlap' = (bootOverlap \/ bootPc = "profile")
    /\ IF EventFetchesProfile(s)
       THEN /\ fetches' = fetches \cup
                  {[id |-> nFetch + 1, origin |-> "event", uid |-> UserOf(s)]}
            /\ nFetch' = nFetch + 1
            /\ UNCHANGED profile
            /\ loading' = IF variant = "A" THEN loading ELSE FALSE
       ELSE /\ profile' = NoProfile
            /\ loading' = FALSE
            /\ UNCHANGED <<fetches, nFetch>>
    /\ UNCHANGED <<variant, urlCfg, keyCfg, connectionError, effectRan, mounted,
                   closureCE, subscribed, bootPc, bootSession, bootOutcome,
                   probe, timer, hardTimeout, getSessionCalls, pendingOp,
                   remoteAuthCalls, opResult, lateSetters, unhandled, failed>>

\* A fetchProfile call settles and its caller resumes.
\*   A, bootstrap (lines 116-126): setProfile under `if (mounted)`, then
\*      setLoading(false) with no test of mounted.
\*   A, event (lines 153-167): setProfile and setLoading(false), each under
\*      `if (mounted)`.
\*   B (lines 199-205, 239-245): setProfile under `if (mounted)`.
ProfileFetchResolve(f, outcome) ==
    /\ f \in fetches
    /\ fetches' = fetches \ {f}
    /\ profile' = IF mounted THEN FetchProfile(f.uid, outcome) ELSE profile
    /\ failed' = IF outcome \in {"error", "throw"} THEN failed \cup {f} ELSE failed
    /\ unhandled' = (unhandled \/ FetchProfileThrows(outcome))
    /\ IF variant = "A" /\ f.origin = "boot"
       THEN /\ loading' = FALSE
            /\ lateSetters' = Late({"bootProfile"})
            /\ bootPc' = "done"
       ELSE /\ loading' = IF variant = "A" /\ mounted THEN FALSE ELSE loading
            /\ UNCHANGED <<lateSetters, bootPc>>
    /\ UNCHANGED <<variant, urlCfg, keyCfg, user, session, connectionError,
                   effectRan, mounted, closureCE, subscribed, bootSession,
                   bootOutcome, bootOverlap, probe, timer, hardTimeout, nFetch,
                   getSessionCalls, nEvents, pendingOp, remoteAuthCalls,
                   opResult>>

-----------------------------------------------------------------------------
(* Credential operations *)

\* A faulty ShortCircuits: the guard is missing.
ShortCircuitsNever == FALSE

\* `if (connectionError)` at the head of signIn, signUp, signInWithGoogle,
\* signOut and resetPassword of variant A (lines 185, 201, 222, 240, 257), on
\* the connectionError of the current render; variant B has no guard.
ShortCircuits == variant = "A" /\ connectionError

\* signIn, signUp, signInWithGoogle, resetPassword up to their await.
CredentialCall(op) ==
    /\ mounted
    /\ pendingOp = "none"
    /\ IF ShortCircuits
       THEN /\ opResult' = [op |-> op, error |-> "no_connection", remote |-> FALSE]
            /\ UNCHANGED <<pendingOp, remoteAuthCalls>>
       ELSE /\ remoteAuthCalls < MaxRemoteCalls
            /\ pendingOp' = op
            /\ remoteAuthCalls' = remoteAuthCalls + 1
            /\ opResult' = NoResult
    /\ UNCHANGED <<variant, urlCfg, keyCfg, user, profile, session, loading,
                   connectionError, effectRan, mounted, closureCE, subscribed,
                   bootPc, bootSession, bootOutcome, bootOverlap, probe, timer,
                   hardTimeout, fetches, nFetch, getSessionCalls, nEvents,
                   lateSetters, unhandled, failed>>

\* signOut up to its await (A: lines 239-249, B: lines 313-315).
SignOutCall ==
    /\ mounted
    /\ pendingOp = "none"
    /\ IF ShortCircuits
       THEN /\ user' = NoUser
            /\ profile' = NoProfile
            /\ session' = NullSession
            /\ opResult' = [op |-> "signOut", error |-> "null", remote |-> FALSE]
            /\ UNCHANGED <<pendingOp, remoteAuthCalls>>
       ELSE /\ remoteAuthCalls < MaxRemoteCalls
            /\ pendingOp' = "signOut"
            /\ remoteAuthCalls' = remoteAuthCalls + 1
            /\ opResult' = NoResult
            /\ UNCHANGED <<user, profile, session>>
    /\ UNCHANGED <<variant, urlCfg, keyCfg, loading, connectionError, effectRan,
                   mounted, closureCE, subscribed, bootPc, bootSession,
                   bootOutcome, bootOverlap, probe, timer, hardTimeout, fetches,
                   nFetch, getSessionCalls, nEvents, lateSetters, unhandled, failed>>

\* `return { error }` / `catch (error) { return { error } }`
ErrorOf(outcome) ==
    CASE outcome = "ok" -> "null"
      [] outcome = "error" -> "remote_error"
      [] outcome = "throw" -> "thrown_error"

\* signOut of variant B clears the local state after the remote call, on
\* both paths (lines 316-326); signOut of variant A does not (lines 248-253).
SignOutClearsAfterRemote == variant = "B"

\* The remote auth call settles and the operation returns.
RemoteAuthResolve(outcome) ==
    /\ pendingOp # "none"
    /\ pendingOp' = "none"
    /\ opResult' = [op |-> pendingOp, error |-> ErrorOf(outcome), remote |-> TRUE]
    /\ IF pendingOp = "signOut" /\ SignOutClearsAfterRemote
       THEN /\ user' = NoUser
            /\ profile' = NoProfile
            /\ session' = NullSession
            /\ lateSetters' = Late({"signOut"})
       ELSE UNCHANGED <<user, profile, session, lateSetters>>
    /\ UNCHANGED <<variant, urlCfg, keyCfg, loading, connectionError, effectRan,
                   mounted, closureCE, subscribed, bootPc, bootSession,
                   bootOutcome, bootOverlap, probe, timer, hardTimeout, fetches,
                   nFetch, getSessionCalls, nEvents, remoteAuthCalls,
                   unhandled, failed>>

-----------------------------------------------------------------------------
\* A step of the Session Store leaves its consumers' own state alone.
StoreOnly == UNCHANGED <<gateVars, projVars, linksVars>>

\* The Session Store alone.
Next ==
    \/ MountEffect /\ StoreOnly
    \/ Cleanup /\ StoreOnly
    \/ \E r \in ProbeResults : GetSessionResolve(r) /\ StoreOnly
    \/ TimeoutFire /\ StoreOnly
    \/ \E r \in ProbeResults : GetSessionLate(r) /\ StoreOnly
    \/ HardTimeoutFire /\ StoreOnly
    \/ \E s \in Sessions : AuthStateChange(s) /\ StoreOnly
    \/ \E f \in fetches : \E o \in ProfileOutcomes :
          ProfileFetchResolve(f, o) /\ StoreOnly
    \/ \E op \in CredentialOps : CredentialCall(op) /\ StoreOnly
    \/ SignOutCall /\ StoreOnly
    \/ \E o \in RemoteOutcomes : RemoteAuthResolve(o) /\ StoreOnly

Spec == Init /\ [][Next]_allVars

\* The timers the effect arms do fire, and the effect does run after the
\* first render; nothing makes the remote service answer.
LiveSpec ==
    /\ Init
    /\ [][Next]_allVars
    /\ WF_allVars(MountEffect /\ StoreOnly)
    /\ WF_allVars(TimeoutFire /\ StoreOnly)
    /\ WF_allVars(HardTimeoutFire /\ StoreOnly)

-----------------------------------------------------------------------------
(* The Access Gate: ProtectedRoute *)

Screens == {"loading", "choice", "auth", "children"}

\* A faulty RenderRevised: the user is looked at before loading.
RenderRevisedUserBeforeLoading(ld, ce, u, sa, ad) ==
    IF u # NoUser THEN "children"
    ELSE IF ld THEN "loading"
    ELSE IF ce /\ ~ad /\ ~sa THEN "choice"
    ELSE IF ad /\ ~sa THEN "children"
    ELSE IF sa \/ ~ad THEN "auth"
    ELSE "children"

\* A faulty RenderRevised: the user is looked at before the connection error.
RenderRevisedUserFirst(ld, ce, u, sa, ad) ==
    IF ld THEN "loading"
    ELSE IF u # NoUser THEN "children"
    ELSE IF ce /\ ~ad /\ ~sa THEN "choice"
    ELSE IF ad /\ ~sa THEN "children"
    ELSE IF sa \/ ~ad THEN "auth"
    ELSE "children"

\* A faulty RenderRevised: the choice screen does not look at authDismissed.
RenderRevisedChoiceAgain(ld, ce, u, sa, ad) ==
    IF ld THEN "loading"
    ELSE IF ce /\ ~sa THEN "choice"
    ELSE IF u # NoUser THEN "children"
    ELSE IF ad /\ ~sa THEN "children"
    ELSE IF sa \/ ~ad THEN "auth"
    ELSE "children"

\* The revised ProtectedRoute (src/unnamed/part_000 lines 17-86): what it
\* returns for loading ld, connectionError ce, user u, showAuth sa and
\* authDismissed ad.
RenderRevised(ld, ce, u, sa, ad) ==
    IF ld THEN "loading"
    ELSE IF ce /\ ~ad /\ ~sa THEN "choice"
    ELSE IF u # NoUser THEN "children"
    ELSE IF ad /\ ~sa THEN "children"
    ELSE IF sa \/ ~ad THEN "auth"
    ELSE "children"

\* A faulty RenderOriginal: the test of user is left out.
RenderOriginalNoUserRule(ld, u, sa, ad, sl) ==
    IF ld /\ sl THEN "loading"
    ELSE IF ad /\ ~sa THEN "children"
    ELSE IF sa \/ ~ad THEN "auth"
    ELSE "children"

\* ProtectedRoute of src/components/protected-route.tsx (lines 29-62), which
\* reads no connectionError and shows the loading screen only while its own
\* showLoading sl is set.
RenderOriginal(ld, u, sa, ad, sl) ==
    IF ld /\ sl THEN "loading"
    ELSE IF u # NoUser THEN "children"
    ELSE IF ad /\ ~sa THEN "children"
    ELSE IF sa \/ ~ad THEN "auth"
    ELSE "children"

\* What the mounted gate renders for the given flags on the store's values.
RenderWith(sa, ad, sl) ==
    IF gateVariant = "revised"
    THEN RenderRevised(loading, connectionError, user, sa, ad)
    ELSE RenderOriginal(loading, user, sa, ad, sl)

\* What the gate renders in the current state.
Rendered == RenderWith(showAuth, authDismissed, showLoading)

\* The gate is a descendant of the provider: it is there until the cleanup.
GateThere == ~(effectRan /\ ~mounted)

\* "Continue Offline" on the choice screen (part_000 line 47).
ContinueOffline ==
    /\ GateThere
    /\ Rendered = "choice"
    /\ authDismissed' = TRUE
    /\ UNCHANGED <<gateVariant, showAuth, showLoading>>

\* "Try Authentication" on the choice screen (part_000 line 53).
TryAuthentication ==
    /\ GateThere
    /\ Rendered = "choice"
    /\ showAuth' = TRUE
    /\ UNCHANGED <<gateVariant, authDismissed, showLoading>>

\* onClose of the authentication page (part_000 lines 78-81,
\* protected-route.tsx lines 54-57).
CloseAuth ==
    /\ GateThere
    /\ Rendered = "auth"
    /\ showAuth' = FALSE
    /\ authDismissed' = TRUE
    /\ UNCHANGED <<gateVariant, showLoading>>

\* The 1000 ms timer of the original gate's effect (protected-route.tsx
\* lines 20-26); the cleanup clears it.
ShowLoadingTimeout ==
    /\ GateThere
    /\ gateVariant = "original"
    /\ showLoading
    /\ showLoading' = FALSE
    /\ UNCHANGED <<gateVariant, showAuth, authDismissed>>

\* A step of the gate leaves the stores alone.
GateOnly == UNCHANGED <<vars, projVars, linksVars>>

\* Either gate, as first rendered, over the provider as first rendered.
GateSpecInit ==
    /\ StoreInit
    /\ gateVariant \in {"original", "revised"}
    /\ showAuth = FALSE
    /\ authDismissed = FALSE
    /\ showLoading = TRUE
    /\ ProjInit
    /\ LinksInit

\* The Session Store, driven by its bootstrap and by auth-change events,
\* under the gate.
GateNext ==
    \/ MountEffect /\ StoreOnly
    \/ Cleanup /\ StoreOnly
    \/ \E r \in ProbeResults : GetSessionResolve(r) /\ StoreOnly
    \/ TimeoutFire /\ StoreOnly
    \/ \E r \in ProbeResults : GetSessionLate(r) /\ StoreOnly
    \/ HardTimeoutFire /\ StoreOnly
    \/ \E s \in Sessions : AuthStateChange(s) /\ StoreOnly
    \/ \E f \in fetches : \E o \in ProfileOutcomes :
          ProfileFetchResolve(f, o) /\ StoreOnly
    \/ ContinueOffline /\ GateOnly
    \/ TryAuthentication /\ GateOnly
    \/ CloseAuth /\ GateOnly
    \/ ShowLoadingTimeout /\ GateOnly

GateSpec == GateSpecInit /\ [][GateNext]_allVars

-----------------------------------------------------------------------------
(* The Resource Store: useProjects *)

\* The ids a component may pass to updateProject and deleteProject: those of
\* the rows there have been.
ProjectIds == 0..inserted

\* .order('created_at', { ascending: false }): ids are handed out in the
\* order of insertion.
RECURSIVE NewestFirst(_)
NewestFirst(rows) ==
    IF rows = {} THEN <<>>
    ELSE LET r == CHOOSE x \in rows : \A y \in rows : y.id <= x.id
         IN  <<r>> \o NewestFirst(rows \ {r})

\* prev.map(p => p.id === id ? data : p)
ReplaceById(list, id, data) ==
    [k \in DOMAIN list |-> IF list[k].id = id THEN data ELSE list[k]]

\* prev.filter(p => p.id !== id)
RemoveById(list, id) == SelectSeq(list, LAMBDA q : q.id # id)

\* A faulty FetchSkipped: connectionError is not looked at.
FetchSkippedNoUserOnly(u, ce) == u = NoUser

\* `if (!user || connectionError)` of fetchProjects.
FetchSkipped(u, ce) == u = NoUser \/ ce

\* A faulty Refused: the calls go out whatever connectionError is.
RefusedNever(ce) == FALSE

\* `if (connectionError)` of createProject, updateProject and deleteProject.
Refused(ce) == ce

\* A faulty ListAfterDelete: the record is removed whatever the reply was.
ListAfterDeleteAlways(list, id, reply) == RemoveById(list, id)

\* deleteProject after its query: `if (error) throw error` comes before
\* setProjects.
ListAfterDelete(list, id, reply) ==
    IF reply = "ok" THEN RemoveById(list, id) ELSE list

\* Call n of function k awaiting the remote service (n is 0 for the calls
\* the effect makes): user.id as its query names it (fetchProjects and
\* createProject only), the row id passed to it, and what the service has
\* answered, if it has.
Op(k, n, u, i, st) ==
    [kind |-> k, n |-> n, uid |-> u, id |-> i, stage |-> st,
     answered |-> FALSE, data |-> <<>>]

\* Call n of function k has completed with error e ("null" for none).
Returned(k, n, e) == [op |-> k, n |-> n, error |-> e]

\* How a query fails: the service answers with an error, or the call throws.
Failures == {"error", "throw"}

\* fetchProjects, called with user u and connectionError ce, up to its await;
\* n is the number of the component's call, 0 when the effect calls.
FetchProjects(n, u, ce) ==
    /\ IF FetchSkipped(u, ce)
       THEN /\ projects' = <<>>
            /\ projLoading' = FALSE
            /\ projResult' = Returned("fetch", n, "null")
            /\ UNCHANGED projOps
       ELSE /\ projOps' = projOps \cup {Op("fetch", n, u, 0, "sent")}
            /\ UNCHANGED <<projects, projLoading, projResult>>
    /\ UNCHANGED <<remote, inserted, projFailed>>

\* A step of useProjects leaves the Session Store and the gate alone.
ProjOnly == UNCHANGED <<vars, gateVars, linksVars>>

\* The first run of the hook's effect.
UseEffect ==
    /\ ~projMounted
    /\ projMounted' = TRUE
    /\ FetchProjects(0, user, connectionError)
    /\ UNCHANGED nProjOps

\* The effect run again because user or connectionError changed.
ProjectsEffect ==
    IF projMounted /\ <<user', connectionError'>> # <<user, connectionError>>
    THEN FetchProjects(0, user', connectionError')
         /\ UNCHANGED <<projMounted, nProjOps>>
    ELSE UNCHANGED projVars

\* `refetch`, called by a component.
Refetch ==
    /\ projMounted
    /\ nProjOps < MaxProjOps
    /\ nProjOps' = nProjOps + 1
    /\ FetchProjects(nProjOps + 1, user, connectionError)
    /\ UNCHANGED projMounted

\* The remote service executes query o and answers without error.  (The
\* connection test of createProject changes nothing and its answer carries
\* nothing that is read: CreateAfterTest takes it as answered.)
RemoteQuery(o) ==
    /\ ~o.answered
    /\ o.stage # "test"
    /\ \/ /\ o.kind = "fetch"
          /\ projOps' = (projOps \ {o}) \cup
                {[o EXCEPT !.answered = TRUE,
                           !.data = NewestFirst({x \in remote :
                                                    x.user_id = o.uid})]}
          /\ UNCHANGED <<remote, inserted>>
       \/ /\ o.kind = "create"
          /\ o.stage = "insert"
          /\ inserted < MaxProjects
          /\ inserted' = inserted + 1
          /\ remote' = remote \cup {Row(inserted + 1, o.uid)}
          /\ projOps' = (projOps \ {o}) \cup
                {[o EXCEPT !.answered = TRUE,
                           !.data = <<Row(inserted + 1, o.uid)>>]}
       \/ /\ o.kind = "update"
          /\ \E x \in remote :
                /\ x.id = o.id
                /\ remote' = (remote \ {x}) \cup {[x EXCEPT !.edited = TRUE]}
                /\ projOps' = (projOps \ {o}) \cup
                      {[o EXCEPT !.answered = TRUE,
                                 !.data = <<[x EXCEPT !.edited = TRUE]>>]}
          /\ UNCHANGED inserted
       \/ /\ o.kind = "delete"
          /\ remote' = {x \in remote : x.id # o.id}
          /\ projOps' = (projOps \ {o}) \cup {[o EXCEPT !.answered = TRUE]}
          /\ UNCHANGED inserted
    /\ UNCHANGED <<projMounted, projects, projLoading, nProjOps, projResult,
                   projFailed>>

\* fetchProjects after its await, the query answered.
FetchResolve(o) ==
    /\ o.kind = "fetch"
    /\ o.answered
    /\ projOps' = projOps \ {o}
    /\ projects' = o.data
    /\ projLoading' = FALSE
    /\ projResult' = Returned("fetch", o.n, "null")
    /\ UNCHANGED <<projMounted, remote, inserted, nProjOps, projFailed>>

\* fetchProjects after its await, the query failed (an error answered or an
\* exception, alike to the catch): the catch and the finally.
FetchFail(o) ==
    /\ o.kind = "fetch"
    /\ ~o.answered
    /\ projOps' = projOps \ {o}
    /\ projects' = <<>>
    /\ projLoading' = FALSE
    /\ projResult' = Returned("fetch", o.n, "failed")
    /\ projFailed' = TRUE
    /\ UNCHANGED <<projMounted, remote, inserted, nProjOps>>

\* createProject up to its first await.
CreateProject ==
    /\ projMounted
    /\ nProjOps < MaxProjOps
    /\ inserted + Cardinality({o \in projOps : o.kind = "create"}) < MaxProjects
    /\ nProjOps' = nProjOps + 1
    /\ IF user = NoUser
       THEN /\ projResult' = Returned("create", nProjOps + 1, "not_authenticated")
            /\ projFailed' = TRUE
            /\ UNCHANGED projOps
       ELSE IF Refused(connectionError)
       THEN /\ projResult' = Returned("create", nProjOps + 1, "no_connection")
            /\ projFailed' = TRUE
            /\ UNCHANGED projOps
       ELSE /\ projOps' = projOps \cup
                  {Op("create", nProjOps + 1, user, 0, "test")}
            /\ UNCHANGED <<projResult, projFailed>>
    /\ UNCHANGED <<projMounted, projects, projLoading, remote, inserted>>

\* createProject after the await of its connection test, which passed: the
\* insert is sent.
CreateAfterTest(o) ==
    /\ o.kind = "create"
    /\ o.stage = "test"
    /\ projOps' = (projOps \ {o}) \cup {Op("create", o.n, o.uid, 0, "insert")}
    /\ UNCHANGED <<projMounted, projects, projLoading, remote, inserted,
                   nProjOps, projResult, projFailed>>

\* createProject after the await of its insert, which succeeded.
CreateAfterInsert(o) ==
    /\ o.kind = "create"
    /\ o.stage = "insert"
    /\ o.answered
    /\ projOps' = projOps \ {o}
    /\ projects' = o.data \o projects
    /\ projResult' = Returned("create", o.n, "null")
    /\ UNCHANGED <<projMounted, projLoading, remote, inserted, nProjOps,
                   projFailed>>

\* createProject after an await whose query failed in way f: testError or
\* 'Database connection failed' from the connection test, the error or the
\* exception from the insert.
CreateFail(o, f) ==
    /\ o.kind = "create"
    /\ ~o.answered
    /\ projOps' = projOps \ {o}
    /\ projResult' = Returned("create", o.n,
          IF o.stage = "test" /\ f = "throw" THEN "connection_failed" ELSE f)
    /\ projFailed' = TRUE
    /\ UNCHANGED <<projMounted, projects, projLoading, remote, inserted,
                   nProjOps>>

\* updateProject(i, updates) up to its await.
UpdateProject(i) ==
    /\ projMounted
    /\ nProjOps < MaxProjOps
    /\ nProjOps' = nProjOps + 1
    /\ IF Refused(connectionError)
       THEN /\ projResult' = Returned("update", nProjOps + 1, "no_connection")
            /\ projFailed' = TRUE
            /\ UNCHANGED projOps
       ELSE /\ projOps' = projOps \cup
                  {Op("update", nProjOps + 1, NoUser, i, "sent")}
            /\ UNCHANGED <<projResult, projFailed>>
    /\ UNCHANGED <<projMounted, projects, projLoading, remote, inserted>>

\* updateProject after its await, the query answered.
UpdateResolve(o) ==
    /\ o.kind = "update"
    /\ o.answered
    /\ projOps' = projOps \ {o}
    /\ projects' = ReplaceById(projects, o.id, o.data[1])
    /\ projResult' = Returned("update", o.n, "null")
    /\ UNCHANGED <<projMounted, projLoading, remote, inserted, nProjOps,
                   projFailed>>

\* deleteProject(i) up to its await.
DeleteProject(i) ==
    /\ projMounted
    /\ nProjOps < MaxProjOps
    /\ nProjOps' = nProjOps + 1
    /\ IF Refused(connectionError)
       THEN /\ projResult' = Returned("delete", nProjOps + 1, "no_connection")
            /\ projFailed' = TRUE
            /\ UNCHANGED projOps
       ELSE /\ projOps' = projOps \cup
                  {Op("delete", nProjOps + 1, NoUser, i, "sent")}
            /\ UNCHANGED <<projResult, projFailed>>
    /\ UNCHANGED <<projMounted, projects, projLoading, remote, inserted>>

\* updateProject or deleteProject after its await, the query failed in way
\* f (for an update also: no row has the id): the catch.
MutationFail(o, f) ==
    /\ o.kind \in {"update", "delete"}
    /\ ~o.answered
    /\ projOps' = projOps \ {o}
    /\ projects' = IF o.kind = "delete"
                   THEN ListAfterDelete(projects, o.id, f)
                   ELSE projects
    /\ projResult' = Returned(o.kind, o.n, f)
    /\ projFailed' = TRUE
    /\ UNCHANGED <<projMounted, projLoading, remote, inserted, nProjOps>>

\* deleteProject after its await, the query answered.
DeleteResolve(o) ==
    /\ o.kind = "delete"
    /\ o.answered
    /\ projOps' = projOps \ {o}
    /\ projects' = ListAfterDelete(projects, o.id, "ok")
    /\ projResult' = Returned("delete", o.n, "null")
    /\ UNCHANGED <<projMounted, projLoading, remote, inserted, nProjOps,
                   projFailed>>

\* useProjects under the provider of use-auth.tsx.
ProjSpecInit ==
    /\ StoreInit
    /\ variant = "A"
    /\ GateInit
    /\ ProjInit
    /\ LinksInit

\* A step of the Session Store, and with it the hook's effect if the step
\* changed what the effect depends on.
UnderProjects == ProjectsEffect /\ UNCHANGED <<gateVars, linksVars>>

\* useProjects under a provider that stays mounted and is driven by its
\* session probe (whose failure sets connectionError, as the timeout does)
\* and by auth-change events.
ProjNext ==
    \/ MountEffect /\ UnderProjects
    \/ \E r \in ProbeResults : GetSessionResolve(r) /\ UnderProjects
    \/ \E s \in Sessions : AuthStateChange(s) /\ UnderProjects
    \/ UseEffect /\ ProjOnly
    \/ Refetch /\ ProjOnly
    \/ CreateProject /\ ProjOnly
    \/ \E i \in ProjectIds : UpdateProject(i) /\ ProjOnly
    \/ \E i \in ProjectIds : DeleteProject(i) /\ ProjOnly
    \/ \E o \in projOps : RemoteQuery(o) /\ ProjOnly
    \/ \E o \in projOps : FetchResolve(o) /\ ProjOnly
    \/ \E o \in projOps : FetchFail(o) /\ ProjOnly
    \/ \E o \in projOps : CreateAfterTest(o) /\ ProjOnly
    \/ \E o \in projOps : CreateAfterInsert(o) /\ ProjOnly
    \/ \E o \in projOps : \E f \in Failures : CreateFail(o, f) /\ ProjOnly
    \/ \E o \in projOps : UpdateResolve(o) /\ ProjOnly
    \/ \E o \in projOps : DeleteResolve(o) /\ ProjOnly
    \/ \E o \in projOps : \E f \in Failures : MutationFail(o, f) /\ ProjOnly

ProjSpec == ProjSpecInit /\ [][ProjNext]_allVars

-----------------------------------------------------------------------------
(* createProject: the clean-up of social_links *)

\* A string is the sequence of its characters: a blank or a letter.
Chars == {" ", "x"}

Strings == UNION {[1..n -> Chars] : n \in 0..MaxLen}

LinkKeys == {"a", "b"}

\* projectData.social_links: left out, or a map from some keys to strings.
LinksInputs ==
    {NoLinksIn} \cup
    {[given |-> TRUE, map |-> f] :
        f \in UNION {[ks -> Strings] : ks \in SUBSET LinkKeys}}

RECURSIVE TrimStart(_)
TrimStart(s) ==
    IF s # <<>> /\ Head(s) = " " THEN TrimStart(Tail(s)) ELSE s

RECURSIVE TrimEnd(_)
TrimEnd(s) ==
    IF s # <<>> /\ s[Len(s)] = " " THEN TrimEnd(SubSeq(s, 1, Len(s) - 1))
    ELSE s

\* A faulty Trim: nothing is taken off.
TrimNothing(s) == s

\* String.prototype.trim
Trim(s) == TrimEnd(TrimStart(s))

\* `value && value.trim() !== ''`
KeepsLink(value) == value # <<>> /\ Trim(value) # <<>>

\* cleanSocialLinks of a map: Object.fromEntries(Object.entries(...).filter(...))
CleanSocialLinks(map) ==
    [k \in {x \in DOMAIN map : KeepsLink(map[x])} |-> map[k]]

\* insertData.social_links for the input in.
SocialLinksSent(in) ==
    IF in.given /\ DOMAIN CleanSocialLinks(in.map) # {}
    THEN [done |-> TRUE, isNull |-> FALSE, map |-> CleanSocialLinks(in.map)]
    ELSE [done |-> TRUE, isNull |-> TRUE, map |-> NoLinksOut.map]

\* createProject builds insertData from projectData.
BuildInsertData ==
    /\ ~linksOut.done
    /\ linksOut' = SocialLinksSent(linksIn)
    /\ UNCHANGED <<linksIn, vars, gateVars, projVars>>

\* createProject called with any social_links.
LinksSpecInit ==
    /\ StoreInit
    /\ variant = "A"
    /\ urlCfg = "valid"
    /\ keyCfg = "valid"
    /\ GateInit
    /\ ProjInit
    /\ linksIn \in LinksInputs
    /\ linksOut = NoLinksOut

LinksNext == BuildInsertData

LinksSpec == LinksSpecInit /\ [][LinksNext]_allVars

-----------------------------------------------------------------------------
(* Session bootstrap *)

\* C1: when getSession() settles after the bootstrap timeout has fired, the
\* step mutates nothing of the Session Store: session and user stay as they
\* were, and in variant A connectionError is, and stays, true.
C1_LateSessionIgnored ==
    [][(probe = "lost" /\ probe' = "late")
          => /\ UNCHANGED store
             /\ (variant = "A" => connectionError /\ connectionError')]_vars

\* Reached: the timeout won, then the retrieval settled, in variant A.
C1_Witness ==
    /\ variant = "A"
    /\ bootOutcome = "timeout"
    /\ probe = "late"
    /\ connectionError
    /\ mounted

\* The configuration cases the claim C2 lists, stated on the settings.
MissingOrPlaceholder ==
    \/ urlCfg \in {"missing", "placeholder"}
    \/ keyCfg \in {"missing", "placeholder"}

\* C2: for every missing/placeholder combination of URL and key, bootstrap
\* (variant A) ends with loading=false, connectionError=true and user=null,
\* and getSession() is never called, then or later.
C2_UnconfiguredBootstrap ==
    /\ [][(variant = "A" /\ MissingOrPlaceholder /\ ~effectRan /\ effectRan')
             => /\ bootPc' = "done"
                /\ loading' = FALSE
                /\ connectionError' = TRUE
                /\ user' = NoUser]_vars
    /\ [](variant = "A" /\ MissingOrPlaceholder
             => getSessionCalls = 0 /\ probe = "idle")

\* Reached: bootstrap has ended on a placeholder key beside a valid URL.
C2_Witness ==
    /\ variant = "A"
    /\ urlCfg = "valid"
    /\ keyCfg = "placeholder"
    /\ bootPc = "done"
    /\ connectionError
    /\ ~loading

\* The step in which initializeAuth returns.
BootstrapCompletes == bootPc # "done" /\ bootPc' = "done"

\* C3 as stated: if getSession() resolves without error with a session
\* whose user is non-null before the timeout, then when bootstrap completes
\* loading=false, connectionError=false and user is that session's user.
C3_AsStated ==
    [][(BootstrapCompletes /\ bootOutcome' = "ok" /\ bootSession'.present)
          => /\ loading' = FALSE
             /\ (variant = "A" => connectionError' = FALSE)
             /\ user' = bootSession'.user]_vars

\* C3 as amended: the same, provided the provider is mounted when the
\* retrieval resolves and no auth-change event is handled between that
\* resolution and the completion of bootstrap.
C3_SessionUserStored ==
    [][(/\ BootstrapCompletes
        /\ bootOutcome' = "ok"
        /\ bootSession'.present
        /\ \/ bootPc = "racing" /\ mounted
           \/ bootPc = "profile" /\ ~bootOverlap)
          => /\ loading' = FALSE
             /\ (variant = "A" => connectionError' = FALSE)
             /\ user' = bootSession'.user]_vars

\* Reached: variant A completed bootstrap after awaiting the profile of the
\* user the retrieval delivered.
C3_Witness ==
    /\ variant = "A"
    /\ bootPc = "done"
    /\ bootOutcome = "ok"
    /\ bootSession.present
    /\ ~bootOverlap
    /\ nFetch > 0
    /\ user = bootSession.user
    /\ ~loading
    /\ ~connectionError

\* C4 as stated: if getSession() resolves with an error before the timeout,
\* bootstrap (variant A) ends with connectionError=true, user=null,
\* session=null and loading=false, and issues no profile fetch.
C4_AsStated ==
    [][(variant = "A" /\ BootstrapCompletes /\ bootOutcome' = "error")
          => /\ connectionError' = TRUE
             /\ user' = NoUser
             /\ session' = NullSession
             /\ loading' = FALSE
             /\ nFetch' = nFetch]_vars

\* C4 as amended: the same, provided the provider is still mounted when the
\* retrieval resolves.
C4_ProbeError ==
    [][(variant = "A" /\ BootstrapCompletes /\ bootOutcome' = "error" /\ mounted)
          => /\ connectionError' = TRUE
             /\ user' = NoUser
             /\ session' = NullSession
             /\ loading' = FALSE
             /\ nFetch' = nFetch]_vars

\* Reached: the retrieval resolved with an error on a mounted provider that
\* an auth event had given a user before.
C4_Witness ==
    /\ variant = "A"
    /\ bootOutcome = "error"
    /\ bootPc = "done"
    /\ mounted
    /\ nEvents > 0
    /\ connectionError
    /\ user = NoUser
    /\ ~loading

-----------------------------------------------------------------------------
(* Loading, teardown, profile fetches *)

\* C5: provided the provider stays mounted and the bootstrap timer fires,
\* loading eventually becomes false, even if the session retrieval or a
\* profile fetch never resolves.
C5_LoadingEnds ==
    ([]~(effectRan /\ ~mounted) /\ <>(timer = "fired")) => <>(loading = FALSE)

\* C6: after the provider is unmounted no state setter is invoked by the
\* continuation of the session probe, of the timeout, of a profile fetch
\* started by bootstrap or of one started by an auth-change event.
C6_NoSetterAfterUnmount ==
    lateSetters \cap {"probe", "timeout", "bootProfile", "eventProfile"} = {}

\* C7: when connectionError is true at the moment an auth-change event
\* carrying a user is handled, or at the moment bootstrap stores a session
\* with a user, no profile fetch is issued.
C7_NoFetchUnderConnectionError ==
    [][(\/ connectionError /\ nEvents' = nEvents + 1
        \/ connectionError' /\ bootPc = "racing" /\ bootPc' # "racing")
          => nFetch' = nFetch]_vars

\* The step in which the profile fetch f, started by an auth-change event,
\* settles as a failure (remote error or exception).
EventFetchFails(f) == f.origin = "event" /\ f \notin failed /\ f \in failed'

-----------------------------------------------------------------------------
(* Credential operations *)

\* C9: when signOut is called with connectionError false and returns, user,
\* profile and session are all null, whatever the remote sign-out did.
C9_SignOutClears ==
    [][(pendingOp = "signOut" /\ pendingOp' = "none")
          => user' = NoUser /\ profile' = NoProfile /\ session' = NullSession]_vars

\* A step of signIn, signUp, signInWithGoogle or resetPassword, from the call
\* to its await or its return.
CredentialStep(op) ==
    /\ pendingOp = "none"
    /\ \/ pendingOp' = op
       \/ opResult' # opResult /\ opResult'.op = op

\* C10: while connectionError is true, signIn, signUp, signInWithGoogle and
\* resetPassword return the "no connection" error, issue no call to the
\* remote auth service and change nothing of the Session Store; signOut
\* clears user, profile and session and returns error=null, without a remote
\* call either.
C10_ShortCircuit ==
    [][/\ \A op \in CredentialOps :
            (connectionError /\ CredentialStep(op))
               => /\ opResult' = [op |-> op, error |-> "no_connection",
                                  remote |-> FALSE]
                  /\ pendingOp' = "none"
                  /\ remoteAuthCalls' = remoteAuthCalls
                  /\ UNCHANGED store
       /\ (connectionError /\ CredentialStep("signOut"))
               => /\ opResult' = [op |-> "signOut", error |-> "null",
                                  remote |-> FALSE]
                  /\ pendingOp' = "none"
                  /\ remoteAuthCalls' = remoteAuthCalls
                  /\ user' = NoUser /\ profile' = NoProfile
                  /\ session' = NullSession
                  /\ UNCHANGED <<loading, connectionError>>]_vars

\* Reached: signIn was refused locally while a user was present.
C10_Witness ==
    /\ connectionError
    /\ opResult = [op |-> "signIn", error |-> "no_connection", remote |-> FALSE]
    /\ remoteAuthCalls = 0
    /\ user # NoUser

-----------------------------------------------------------------------------
(* The Access Gate *)

\* C11 as stated: whenever loading is true the gate renders the loading
\* placeholder.  The gate of protected-route.tsx stops doing so one second
\* after it was mounted.
C11_AsStated == loading => Rendered = "loading"

\* C11: whenever loading is true, the revised gate renders the loading
\* placeholder (so neither the children nor the authentication prompt),
\* whatever its flags; the gate of protected-route.tsx does so as long as its
\* showLoading is still set.
C11_LoadingPlaceholder ==
    (loading /\ (gateVariant = "revised" \/ showLoading))
        => \A sa \in BOOLEAN, ad \in BOOLEAN :
              RenderWith(sa, ad, showLoading) = "loading"

\* Reached: the user is already stored while loading is still true (the
\* profile fetch is awaited), and the revised gate shows the placeholder.
C11_Witness ==
    /\ gateVariant = "revised"
    /\ mounted
    /\ loading
    /\ user # NoUser
    /\ Rendered = "loading"

\* C12 as stated: with loading false and a user present the gate renders the
\* children.  The revised gate tests connectionError before the user.
C12_AsStated == (~loading /\ user # NoUser) => Rendered = "children"

\* C12: with loading false and a user present the gate renders the children
\* for every value of authDismissed and showAuth, except that the revised
\* gate renders the choice screen instead while connectionError is true and
\* neither flag is set.
C12_UserSeesChildren ==
    (~loading /\ user # NoUser)
        => \A sa \in BOOLEAN, ad \in BOOLEAN :
              RenderWith(sa, ad, showLoading) =
                  IF gateVariant = "revised" /\ connectionError /\ ~ad /\ ~sa
                  THEN "choice" ELSE "children"

\* Reached: a user arrived by an auth-change event after the bootstrap had set
\* connectionError, the choice screen was left by "Continue Offline", and the
\* revised gate renders the children.
C12_Witness ==
    /\ gateVariant = "revised"
    /\ ~loading
    /\ user # NoUser
    /\ connectionError
    /\ authDismissed
    /\ Rendered = "children"

\* The ordered list 1-6 of the Access Gate, as pairs of condition and outcome.
GateRules(ld, ce, u, sa, ad) ==
    << <<ld, "loading">>,
       <<ce /\ ~ad /\ ~sa, "choice">>,
       <<u # NoUser, "children">>,
       <<ad /\ ~sa, "children">>,
       <<~ad \/ sa, "auth">>,
       <<TRUE, "children">> >>

\* The outcome of the first rule of a list whose condition holds.
FirstMatch(rules) ==
    rules[CHOOSE i \in 1..Len(rules) :
              rules[i][1] /\ \A j \in 1..(i - 1) : ~rules[j][1]][2]

\* C13: for every combination of loading, connectionError, user, showAuth and
\* authDismissed the revised gate renders the outcome of the first matching
\* rule of the list 1-6, and the choice screen exactly when loading is false,
\* connectionError is true and neither flag is set; so it does in every
\* state it is rendered in.
C13_FirstMatchingRule ==
    /\ \A ld \in BOOLEAN, ce \in BOOLEAN, u \in Users \cup {NoUser},
          sa \in BOOLEAN, ad \in BOOLEAN :
          /\ RenderRevised(ld, ce, u, sa, ad)
                 = FirstMatch(GateRules(ld, ce, u, sa, ad))
          /\ (RenderRevised(ld, ce, u, sa, ad) = "choice")
                 <=> (~ld /\ ce /\ ~ad /\ ~sa)
    /\ gateVariant = "revised"
          => /\ Rendered = FirstMatch(GateRules(loading, connectionError,
                                                user, showAuth, authDismissed))
             /\ (Rendered = "choice")
                    <=> (~loading /\ connectionError
                           /\ ~authDismissed /\ ~showAuth)

\* Reached: the revised gate shows the choice screen although a user is
\* present.
C13_Witness ==
    /\ gateVariant = "revised"
    /\ mounted
    /\ user # NoUser
    /\ Rendered = "choice"

-----------------------------------------------------------------------------
(* The Resource Store *)

\* The step is a component's call of function k of useProjects: the call is
\* now awaiting the remote service, or it has returned at once.
Called(k) ==
    /\ nProjOps' = nProjOps + 1
    /\ \/ \E o \in projOps' \ projOps : o.kind = k /\ o.n = nProjOps'
       \/ /\ projResult' # projResult
          /\ projResult'.op = k
          /\ projResult'.n = nProjOps'

\* The step is the end of call o after its remote call failed: the call
\* leaves the calls in flight without an answer and without a next query.
FailedReturn(o) ==
    /\ ~o.answered
    /\ projOps' = projOps \ {o}
    /\ ~\E q \in projOps :
          q.answered /\ q.kind = o.kind /\ q.n = o.n /\ q.uid = o.uid

\* C14: a call of createProject, updateProject or deleteProject made while
\* connectionError is true returns at once with a non-null error, sends no
\* query to the remote service and leaves the local list as it was.
C14_RefusedUnderConnectionError ==
    [][\A k \in {"create", "update", "delete"} :
          (connectionError /\ Called(k))
              => /\ projResult' # projResult
                 /\ projResult'.op = k
                 /\ projResult'.error # "null"
                 /\ projOps' = projOps
                 /\ remote' = remote
                 /\ projects' = projects]_allVars

\* Reached: deleteProject was refused under connectionError while the local
\* list held a record.
C14_Witness ==
    /\ connectionError
    /\ projResult = Returned("delete", 1, "no_connection")
    /\ projOps = {}
    /\ projects # <<>>

\* C15: every record of the local list has user_id equal to the id of the
\* current user, so the list is empty when there is no user.
C15_OwnedByCurrentUser ==
    \A k \in DOMAIN projects : projects[k].user_id = user

\* C16: when the remote call of createProject (connection test or insert),
\* updateProject or deleteProject fails, the function returns a non-null
\* error and the local list is what it was.
C16_FailureLeavesList ==
    [][\A o \in projOps :
          (o.kind \in {"create", "update", "delete"} /\ FailedReturn(o))
              => /\ projResult'.op = o.kind
                 /\ projResult'.n = o.n
                 /\ projResult'.error # "null"
                 /\ projects' = projects]_allVars

\* Reached: the query of deleteProject failed while the local list held the
\* record, and the list still holds it.
C16_Witness ==
    /\ projResult.op = "delete"
    /\ projResult.error \in Failures
    /\ \E k \in DOMAIN projects : projects[k].id = 0

\* C17 as stated: the social_links sent holds the input entries whose value
\* is not the empty string, and is null when there is none.  An entry whose
\* value is blank is dropped as well.
C17_AsStated ==
    linksOut.done =>
        LET kept == IF linksIn.given
                    THEN {k \in DOMAIN linksIn.map : linksIn.map[k] # <<>>}
                    ELSE {}
        IN  /\ linksOut.isNull <=> (kept = {})
            /\ ~linksOut.isNull => /\ DOMAIN linksOut.map = kept
                                   /\ \A k \in kept :
                                         linksOut.map[k] = linksIn.map[k]

\* C17: the social_links sent holds the input entries whose value has a
\* character that is not a blank, each with its value as given, and is null
\* when there is no such entry or no map was given.
C17_NonBlankEntriesSent ==
    linksOut.done =>
        LET kept == IF linksIn.given
                    THEN {k \in DOMAIN linksIn.map :
                             \E j \in DOMAIN linksIn.map[k] :
                                linksIn.map[k][j] # " "}
                    ELSE {}
        IN  /\ linksOut.isNull <=> (kept = {})
            /\ ~linksOut.isNull => /\ DOMAIN linksOut.map = kept
                                   /\ \A k \in kept :
                                         linksOut.map[k] = linksIn.map[k]

\* Reached: of {a: " ", b: " x"} the entry b alone was sent, untrimmed.
C17_Witness ==
    /\ linksOut.done
    /\ linksIn.given
    /\ DOMAIN linksIn.map = {"a", "b"}
    /\ linksIn.map["a"] = <<" ">>
    /\ linksIn.map["b"] = <<" ", "x">>
    /\ ~linksOut.isNull
    /\ DOMAIN linksOut.map = {"b"}
    /\ linksOut.map["b"] = <<" ", "x">>

\* The step calls fetchProjects: the hook's effect runs, or a component calls
\* refetch.
FetchCalled ==
    \/ projMounted' /\ ~projMounted
    \/ projMounted /\ <<user', connectionError'>> # <<user, connectionError>>
    \/ Called("fetch")

\* C18: fetchProjects called while there is no user or while connectionError
\* is true sends no query and leaves the local list empty and the hook's
\* loading false; so does a fetchProjects whose query failed.
C18_FetchSkippedOrFailed ==
    [][/\ (FetchCalled /\ (user' = NoUser \/ connectionError'))
              => /\ projOps' = projOps
                 /\ projects' = <<>>
                 /\ projLoading' = FALSE
       /\ \A o \in projOps :
             (o.kind = "fetch" /\ FailedReturn(o))
                 => /\ projects' = <<>>
                    /\ projLoading' = FALSE]_allVars

\* Reached: a user is present, the query of fetchProjects has failed, and on
\* the way a fetchProjects was skipped under connectionError with a user
\* present.
C18_Witness ==
    /\ user # NoUser
    /\ connectionError
    /\ projResult = Returned("fetch", 0, "failed")
    /\ projects = <<>>
    /\ ~projLoading

\* C19: with a user present, connectionError false, no call in flight and no
\* call failed, the local list holds the remote rows of the current user and
\* no others, each once.
C19_Synchronized ==
    (projMounted /\ user # NoUser /\ ~connectionError /\ projOps = {}
        /\ ~projFailed)
        => /\ {projects[k] : k \in DOMAIN projects}
                 = {x \in remote : x.user_id = user}
           /\ Len(projects) = Cardinality({x \in remote : x.user_id = user})

-----------------------------------------------------------------------------
(* Auth-change events *)

\* The step delivers an auth-change event to the callback.
EventStep == nEvents' = nEvents + 1

\* The step is the end of the callback of use-auth.tsx for an event that
\* carried a user: the fetchProfile f it awaited settles while mounted.
EventEnds(f) ==
    /\ variant = "A"
    /\ f.origin = "event"
    /\ f \in fetches
    /\ f \notin fetches'
    /\ mounted

\* What the callback does on its way: it stores the event's session and the
\* user derived from it, and, for an event without a user, clears the profile
\* and ends with loading false; in supabase.ts it ends at once with loading
\* false, in use-auth.tsx it awaits fetchProfile for an event with a user.
EventStored ==
    EventStep =>
        /\ user' = IF session'.present THEN session'.user ELSE NoUser
        /\ ~session'.present => (profile' = NoProfile /\ loading' = FALSE)
        /\ variant = "B" => loading' = FALSE
        /\ (variant = "A" /\ session'.present)
               => \E f \in fetches' \ fetches :
                     f.origin = "event" /\ f.uid = user'

-----------------------------------------------------------------------------
(* The profile and its user *)

\* C21: in every state of the Session Store a non-null profile comes with a
\* non-null user whose id is the profile's id, also when a fetchProfile
\* started for an earlier session settles after a later auth-change event or
\* signOut has changed or cleared the user.
C21_ProfileOfUser ==
    profile # NoProfile => (user # NoUser /\ profile = user)

-----------------------------------------------------------------------------
(* The timer after the race *)

\* The timer of timeoutPromise fires after getSession() has settled the race
\* with a result (a session, none, or an error).
TimerFiresLate ==
    /\ timer = "armed"
    /\ timer' = "fired"
    /\ probe = "settled"
    /\ bootOutcome \in {"ok", "error"}

\* C22: when the session retrieval has resolved, with a session or with an
\* error, before the timeout, the later firing of the bootstrap timer changes
\* none of session, user, profile, loading and connectionError, and leaves no
\* unhandled rejection.
C22_LateTimerNoOp ==
    [][TimerFiresLate => (UNCHANGED store /\ ~unhandled')]_vars

\* Reached: the timer has fired after the retrieval had stored a user, and
\* the user is still there with no connection error.
C22_Witness ==
    /\ timer = "fired"
    /\ probe = "settled"
    /\ bootOutcome = "ok"
    /\ mounted
    /\ user # NoUser
    /\ session = [present |-> TRUE, user |-> user]
    /\ ~connectionError
    /\ ~unhandled

-----------------------------------------------------------------------------
(* The opt-out of the Access Gate *)

\* C23: once "Continue Offline" has been chosen on the choice screen, or the
\* authentication prompt has been closed, the gate renders the protected
\* children in every later state, whatever user and connectionError become:
\* neither the choice screen nor the authentication prompt comes back.  Both
\* handlers set authDismissed, which nothing resets.
C23_OptedOutForGood ==
    /\ [](authDismissed => Rendered = "children")
    /\ [][authDismissed => authDismissed']_allVars

\* Reached: the revised gate renders the children for no user under a
\* connection error, after the opt-out.
C23_Witness ==
    /\ gateVariant = "revised"
    /\ GateThere
    /\ authDismissed
    /\ ~showAuth
    /\ ~loading
    /\ connectionError
    /\ user = NoUser
    /\ nEvents = 1
    /\ Rendered = "children"

-----------------------------------------------------------------------------
(* The loading flag *)

\* C24: the loading flag of the Session Store, in either provider, starts
\* true and, once false, never becomes true again, whatever the order of the
\* probe result, the timeouts, auth-change events, profile-fetch results,
\* credential operations and signOut.
C24_LoadingMonotone ==
    /\ loading = TRUE
    /\ [][loading' => loading]_vars

\* Reached in use-auth.tsx: the callback awaits the profile of an event's
\* user, after the bootstrap had ended the loading.
C24_Witness ==
    /\ variant = "A"
    /\ mounted
    /\ ~loading
    /\ bootPc = "done"
    /\ \E f \in fetches : f.origin = "event"
    /\ pendingOp # "none"

-----------------------------------------------------------------------------
(* connectionError after the bootstrap *)

\* A step of the auth-change callback: the delivery of an event, or the
\* resumption of the callback when the fetchProfile it awaited settles.
CallbackStep ==
    \/ EventStep
    \/ \E f \in fetches : f.origin = "event" /\ f \notin fetches'

\* A step of signIn, signUp, signInWithGoogle, resetPassword or signOut: the
\* call up to its await or its return, or the return after the remote call.
OperationStep ==
    \/ \E op \in CredentialOps \cup {"signOut"} : CredentialStep(op)
    \/ pendingOp # "none" /\ pendingOp' = "none"

\* C25: auth-change events, credential operations and signOut leave
\* connectionError as it is; once the bootstrap has ended with
\* connectionError true (unconfigured, probe error or timeout) it stays true,
\* also after events that carry a valid session and user.
C25_ConnectionErrorKept ==
    [][/\ (CallbackStep \/ OperationStep)
             => connectionError' = connectionError
       /\ (bootPc = "done" /\ connectionError) => connectionError']_vars

\* Reached: the bootstrap timed out, an event then brought a user and signIn
\* was called, and connectionError is still true.
C25_Witness ==
    /\ variant = "A"
    /\ mounted
    /\ bootPc = "done"
    /\ bootOutcome = "timeout"
    /\ connectionError
    /\ nEvents = 1
    /\ user # NoUser
    /\ session = [present |-> TRUE, user |-> user]
    /\ opResult.op = "signIn"

====
